---------------------------- MODULE Spec2Model ----------------------------
(***************************************************************************)
(* Model of wenzhou_bus_batch_colored.py: the GCJ-02 -> WGS-84 transformer,*)
(* the polyline parser, the candidate selector and the batch orchestrator  *)
(* run() with its preview renderer.                                        *)
(*                                                                         *)
(* Conventions                                                             *)
(*  - A Python str is a sequence of one-character strings.  The character  *)
(*    U+8DEF (the "route" suffix) is written "LU", the fullwidth           *)
(*    parentheses U+FF08/U+FF09 are written "FWL"/"FWR".                   *)
(*  - A coordinate (a Python float, in degrees) is an integer number of    *)
(*    1e-7 degrees ("E7").  The envelope constants of _out_of_china are    *)
(*    exact in this unit.  The correction of gcj2wgs is evaluated in       *)
(*    fixed point (x, y to 0.01 degree, sines to 0.001); it agrees with    *)
(*    the floating-point code to about 2e-5 degree.                        *)
(*  - A Python int of unbounded size (idnum) is a sign and a sequence of   *)
(*    decimal digits.                                                      *)
(*  - A raised exception is the string naming its class.                   *)
(*  - Text that the program only copies or compares for equality (route    *)
(*    and stop names, route ids inside features, colors) is an atomic      *)
(*    string.                                                              *)
(***************************************************************************)
EXTENDS Integers, Sequences, FiniteSets, TLC

VARIABLES
    \* ---- run(city, keywords, outdir, overwrite, preview) ----
    keywords,         \* the keyword list handed to run()
    overwrite,        \* the overwrite flag
    preview,          \* the preview flag
    files,            \* the files of outdir: path -> content, or Absent
    all_route_feats,  \* accumulated route features
    all_stop_feats,   \* accumulated stop features
    idx,              \* position of the for-loop in keywords
    pc,               \* where run() is
    ln,               \* the reply of the search endpoint last received
    line_id,          \* the id picked for the pending detail request
    m,                \* the folium map being built
    requests,         \* HTTP requests issued by this run, in order
    outcome,          \* per keyword position: how its iteration ended
    exc,              \* the exception that left run(), or "none"
    caught,           \* the exception caught by the preview handler, or "none"
    files0,           \* the files as they were when this run() was entered
    prior,            \* outcome of the preceding run() on the same arguments
    origin,           \* path -> the provider record this run wrote it from
    \* ---- direct calls of the pure functions ----
    cands, picked,    \* pick_best_busline(cands)
    segs, poly, feat, \* feature_line(map(gcj2wgs, parse_polyline(poly)))
    pt, wgs, branch   \* gcj2wgs(pt)

runVars == <<keywords, overwrite, preview, files, all_route_feats,
             all_stop_feats, idx, pc, ln, line_id, m, requests, outcome,
             exc, caught, files0, prior, origin>>
pickVars == <<cands, picked>>
polyVars == <<segs, poly, feat>>
gcjVars == <<pt, wgs, branch>>
vars == <<runVars, pickVars, polyVars, gcjVars>>

-----------------------------------------------------------------------------
(* Bounds of the model *)

MaxKeywords == 2
MaxCands == 3
MaxSegs == 3

-----------------------------------------------------------------------------
(* Generic helpers *)

Digits == {"0", "1", "2", "3", "4", "5", "6", "7", "8", "9"}

DigitVal(c) ==
    CASE c = "0" -> 0 [] c = "1" -> 1 [] c = "2" -> 2 [] c = "3" -> 3
      [] c = "4" -> 4 [] c = "5" -> 5 [] c = "6" -> 6 [] c = "7" -> 7
      [] c = "8" -> 8 [] c = "9" -> 9

DigitChar(d) == <<"0", "1", "2", "3", "4", "5", "6", "7", "8", "9">>[d + 1]

Abs(n) == IF n < 0 THEN -n ELSE n

Front(s) == SubSeq(s, 1, Len(s) - 1)

RECURSIVE Join(_, _)
Join(ss, sep) ==
    IF ss = <<>> THEN <<>>
    ELSE IF Len(ss) = 1 THEN Head(ss)
    ELSE Head(ss) \o <<sep>> \o Join(Tail(ss), sep)

SeqsUpTo(S, n) == UNION {[1..k -> S] : k \in 0..n}

\* math.sqrt on integers: the floor of the square root (Newton iteration).
RECURSIVE Newton(_, _)
Newton(n, r) ==
    LET nxt == (r + n \div r) \div 2
    IN  IF nxt >= r THEN r ELSE Newton(n, nxt)

ISqrt(n) == IF n = 0 THEN 0 ELSE Newton(n, n)

\* math.sin of an angle given in 0.01 degree, in thousandths
\* (Bhaskara's rational approximation on each half turn).
Bhaskara(v) ==
    LET p == (v * (18000 - v)) \div 1000
    IN  (4000 * p) \div (405000 - p)

SinMilli(u) ==
    LET v == u % 36000
    IN  IF v < 18000 THEN Bhaskara(v) ELSE -Bhaskara(v - 18000)

-----------------------------------------------------------------------------
(* str.strip, str.split, float *)

IsSpace(c) == c = " "

RECURSIVE LStrip(_)
LStrip(s) == IF s # <<>> /\ IsSpace(Head(s)) THEN LStrip(Tail(s)) ELSE s

RECURSIVE RStrip(_)
RStrip(s) == IF s # <<>> /\ IsSpace(s[Len(s)]) THEN RStrip(Front(s)) ELSE s

strip(s) == LStrip(RStrip(s))

\* s.split(sep): the pieces between the separators, empty pieces included.
RECURSIVE SplitFrom(_, _, _)
SplitFrom(s, sep, cur) ==
    IF s = <<>> THEN <<cur>>
    ELSE IF Head(s) = sep THEN <<cur>> \o SplitFrom(Tail(s), sep, <<>>)
    ELSE SplitFrom(Tail(s), sep, Append(cur, Head(s)))

split(s, sep) == SplitFrom(s, sep, <<>>)

AllDigits(s) == \A i \in DOMAIN s : s[i] \in Digits

RECURSIVE NatOf(_)
NatOf(s) == IF s = <<>> THEN 0 ELSE 10 * NatOf(Front(s)) + DigitVal(s[Len(s)])

\* The first seven fractional digits, as a number of 1e-7.
RECURSIVE FracE7(_, _)
FracE7(s, k) ==
    IF k = 0 THEN 0
    ELSE IF s = <<>> THEN 0
    ELSE DigitVal(Head(s)) * (10 ^ (k - 1)) + FracE7(Tail(s), k - 1)

\* float(s) for the decimal literals [sign] digits [. digits]; anything else
\* over the alphabet of the model raises ValueError.  The result is
\* [err, v]: the exception raised (or "none") and the value in E7.
float_value(neg, n, ip, fp) ==
    IF n <= 2 /\ AllDigits(ip) /\ AllDigits(fp) /\ Len(ip) + Len(fp) > 0
    THEN [err |-> "none",
          v |-> (IF neg THEN -1 ELSE 1) * (NatOf(ip) * 10000000 + FracE7(fp, 7))]
    ELSE [err |-> "ValueError", v |-> 0]

float_parts(neg, prts) ==
    float_value(neg, Len(prts), prts[1],
                IF Len(prts) = 2 THEN prts[2] ELSE <<>>)

float_stripped(s) ==
    float_parts(s # <<>> /\ Head(s) = "-",
                split(IF s # <<>> /\ Head(s) \in {"-", "+"} THEN Tail(s) ELSE s,
                      "."))

float(s0) == float_stripped(strip(s0))

-----------------------------------------------------------------------------
(* GCJ-02 -> WGS-84 *)

\* Variant: the envelope without its boundary.
_out_of_china_strict(lon, lat) ==
    ~(/\ 720040000 < lon /\ lon < 1378347000
      /\ 8293000 < lat /\ lat < 558271000)

_out_of_china(lon, lat) ==
    ~(/\ 720040000 <= lon /\ lon <= 1378347000
      /\ 8293000 <= lat /\ lat <= 558271000)

\* x, y in 0.01 degree; result in 0.01.
_tlat(x, y) ==
    LET r0 == -10000 + 2 * x + 3 * y + (y * y) \div 500 + (x * y) \div 1000
              + ISqrt(10000 * Abs(x)) \div 50
        r1 == ((20 * SinMilli(1080 * x) + 20 * SinMilli(360 * x)) * 2) \div 30
        r2 == ((20 * SinMilli(180 * y) + 40 * SinMilli(60 * y)) * 2) \div 30
        r3 == ((160 * SinMilli(15 * y) + 320 * SinMilli(6 * y)) * 2) \div 30
    IN  r0 + r1 + r2 + r3

_tlon(x, y) ==
    LET r0 == 30000 + x + 2 * y + (x * x) \div 1000 + (x * y) \div 1000
              + ISqrt(10000 * Abs(x)) \div 100
        r1 == ((20 * SinMilli(1080 * x) + 20 * SinMilli(180 * x)) * 2) \div 30
        r2 == ((40 * SinMilli(60 * x) + 150 * SinMilli(15 * x)
                + 300 * SinMilli(6 * x)) * 2) \div 30
    IN  r0 + r1 + r2

\* The two correction offsets of gcj2wgs, in E7 degrees, from dlon and dlat
\* (in 0.01), sin and cos of the latitude (in 0.001) and magic (in 1e-6).
\*   a*pi/180 = 111321.3757 m per degree        (1e6 / 111321.3757 = 8.983)
\*   a*(1-ee)*pi/180 = 110576.26 m per degree  (1e5 / 110576.26 = 0.9044)
scaled(dlon, dlat, coslat, magic, sqrtMagic) ==
    <<(((dlon * coslat) \div 1000) * 8983) \div sqrtMagic,
      (((((dlat * 9044) \div 10000) * (magic \div 100)) \div 10000)
         * sqrtMagic) \div 10000>>

\* magic = 1 - ee * sin(radlat)^2, ee = 0.006693...
magic_of(sinlat) == 1000000 - (((sinlat * sinlat) \div 1000) * 6693) \div 1000

with_magic(dlon, dlat, coslat, magic) ==
    scaled(dlon, dlat, coslat, magic, ISqrt(magic * 100))

\* x = lon - 105.0 and y = lat - 35.0 in 0.01 degree, radlat in 0.01 degree.
offsets_at(x, y, radlat) ==
    with_magic(_tlon(x, y), _tlat(x, y), SinMilli(radlat + 9000),
               magic_of(SinMilli(radlat)))

correction(lon, lat) ==
    offsets_at((lon - 1050000000) \div 100000, (lat - 350000000) \div 100000,
               lat \div 100000)

minus(p, d) == <<p[1] - d[1], p[2] - d[2]>>

gcj2wgs(lon, lat) ==
    IF _out_of_china(lon, lat) THEN <<lon, lat>>
    ELSE minus(<<lon, lat>>, correction(lon, lat))

-----------------------------------------------------------------------------
(* Geo helpers *)

\* The loop of parse_polyline over the pieces of poly.split(";").  The result
\* is [err, pts]: the exception raised (or "none") and the points parsed.
Failed(e) == [err |-> e, pts |-> <<>>]

prepend(x, y, rest) ==
    IF x.err # "none" \/ y.err # "none" THEN Failed("ValueError")
    ELSE IF rest.err # "none" THEN rest
    ELSE [err |-> "none", pts |-> <<<<x.v, y.v>>>> \o rest.pts]

RECURSIVE parse_segments(_)
parse_pair(parts, more) ==
    IF Len(parts) # 2 THEN Failed("ValueError")
    ELSE prepend(float(parts[1]), float(parts[2]), parse_segments(more))

\* Variant: an empty segment is not skipped.
parse_segment_noskip(s, more) == parse_pair(split(s, ","), more)

parse_segment(s, more) ==
    IF s = <<>> THEN parse_segments(more) ELSE parse_pair(split(s, ","), more)

parse_segments(ss) ==
    IF ss = <<>> THEN [err |-> "none", pts |-> <<>>]
    ELSE parse_segment(strip(Head(ss)), Tail(ss))

parse_polyline(p) == parse_segments(split(p, ";"))

to_fc(features) == [type |-> "FeatureCollection", features |-> features]

feature_line(coords_wgs, props) ==
    [type |-> "Feature",
     geometry |-> [type |-> "LineString", coordinates |-> coords_wgs],
     properties |-> props]

feature_point(lon, lat, props) ==
    [type |-> "Feature",
     geometry |-> [type |-> "Point", coordinates |-> <<lon, lat>>],
     properties |-> props]

\* kw.strip().replace(fullwidth "(", "(").replace(fullwidth ")", ")"),
\* less a trailing "LU".
base_name(kw) ==
    LET t == strip(kw)
        s == [i \in DOMAIN t |->
                IF t[i] = "FWL" THEN "(" ELSE IF t[i] = "FWR" THEN ")" ELSE t[i]]
    IN  IF s # <<>> /\ s[Len(s)] = "LU" THEN Front(s) ELSE s

-----------------------------------------------------------------------------
(* Selection: pick min numeric id *)

\* A Python int: a sign and the decimal digits of the magnitude, most
\* significant first, without leading zeros (zero is the empty sequence).
RECURSIVE StripZeros(_)
StripZeros(d) == IF d # <<>> /\ Head(d) = "0" THEN StripZeros(Tail(d)) ELSE d

PyInt(neg, digits) ==
    LET mag == StripZeros(digits)
    IN  [neg |-> neg /\ mag # <<>>, mag |-> mag]

RECURSIVE LexLess(_, _)
LexLess(a, b) ==
    IF a = <<>> THEN FALSE
    ELSE IF DigitVal(Head(a)) # DigitVal(Head(b))
         THEN DigitVal(Head(a)) < DigitVal(Head(b))
         ELSE LexLess(Tail(a), Tail(b))

MagLess(a, b) == Len(a) < Len(b) \/ (Len(a) = Len(b) /\ LexLess(a, b))

IntLess(a, b) ==
    IF a.neg # b.neg THEN a.neg
    ELSE IF a.neg THEN MagLess(b.mag, a.mag) ELSE MagLess(a.mag, b.mag)

\* The digits of 10**18.
Big18 ==
    <<"1", "0", "0", "0", "0", "0", "0", "0", "0", "0",
      "0", "0", "0", "0", "0", "0", "0", "0", "0">>

\* 10**18
Sentinel == PyInt(FALSE, Big18)

\* int(s): optional surrounding whitespace, an optional sign, digits.
idnum(s0) ==
    LET s    == strip(s0)
        neg  == s # <<>> /\ Head(s) = "-"
        body == IF s # <<>> /\ Head(s) \in {"-", "+"} THEN Tail(s) ELSE s
    IN  IF body # <<>> /\ AllDigits(body) THEN PyInt(neg, body) ELSE Sentinel

\* b.get("id", "")
GetId(b) == IF "id" \in DOMAIN b THEN b.id ELSE <<>>

\* min(cands, key=...): the first candidate whose key is the least.
RECURSIVE MinFrom(_, _, _)
MinFrom(cs, i, best) ==
    IF i > Len(cs) THEN best
    ELSE IF IntLess(idnum(GetId(cs[i])), idnum(GetId(cs[best])))
         THEN MinFrom(cs, i + 1, i)
         ELSE MinFrom(cs, i + 1, best)

\* The result is <<>> for None and <<b>> for the candidate b.
pick_best_busline(cs) ==
    IF cs = <<>> THEN <<>> ELSE <<cs[MinFrom(cs, 2, 1)]>>

-----------------------------------------------------------------------------
(* The provider: decimal text of coordinates, replies of the two endpoints *)

RECURSIVE NatChars(_)
NatChars(n) ==
    IF n < 10 THEN <<DigitChar(n)>>
    ELSE Append(NatChars(n \div 10), DigitChar(n % 10))

RECURSIVE FracChars(_, _)
FracChars(n, k) ==
    IF k = 0 THEN <<>>
    ELSE Append(FracChars(n \div 10, k - 1), DigitChar(n % 10))

\* The decimal literal of an E7 coordinate, seven decimals.
DecimalText(n) ==
    (IF n < 0 THEN <<"-">> ELSE <<>>)
    \o NatChars(Abs(n) \div 10000000) \o <<".">>
    \o FracChars(Abs(n) % 10000000, 7)

PairText(p) == DecimalText(p[1]) \o <<",">> \o DecimalText(p[2])

P1 == <<1207000000, 280000000>>   \* in Wenzhou
P2 == <<1206500000, 279900000>>   \* in Wenzhou
P3 == <<1400000000, 300000000>>   \* east of the envelope

Stop(name, p) == [name |-> name, location |-> PairText(p)]

Line(id, name, polyline, busstops) ==
    [id |-> id, name |-> name, type |-> "bus", company |-> "WZ",
     start_stop |-> "A", end_stop |-> "B",
     polyline |-> polyline, busstops |-> busstops]

L24 ==
    Line("88", "Route24", PairText(P1) \o <<";">> \o PairText(P2),
         <<Stop("Station", P1), Stop("North", P2)>>)

LB1 ==
    Line("1023", "RouteB1", PairText(P1) \o <<";">> \o PairText(P3) \o <<";">>,
         <<Stop("Station", P1), Stop("East", P3)>>)

\* a polyline with a malformed segment
LBadPoly == Line("7", "RouteX", PairText(P1) \o <<";", "x">>, <<>>)

\* a stop record without a location
LBadStop == Line("9", "RouteY", PairText(P2), <<[name |-> "Station"]>>)

Reply(err, status, buslines) ==
    [err |-> err, status |-> status, buslines |-> buslines]

\* no reply received yet
NoReply == Reply("none", "", <<>>)

Cand(id) == [id |-> id, name |-> "c"]

SearchReplies ==
    {Reply("URLError", "", <<>>),
     Reply("none", "0", <<>>),
     Reply("none", "1", <<>>),
     Reply("none", "1", <<Cand(<<"1", "0", "2", "3">>), [name |-> "c"],
                          Cand(<<"8", "8">>)>>)}

DetailReplies ==
    {Reply("URLError", "", <<>>),
     Reply("none", "0", <<>>),
     Reply("none", "1", <<>>)}
    \cup {Reply("none", "1", <<L>>) : L \in {L24, LB1, LBadPoly, LBadStop}}

-----------------------------------------------------------------------------
(* The arguments of run() and the output directory *)

KW24 == <<" ", "2", "4", "LU">>
KWB1 == <<"B", "1">>
KWBlank == <<" ">>

KeywordSet == {KW24, KWB1, KWBlank}

Bases == {base_name(k) : k \in KeywordSet} \ {<<>>}

route_path(base) == [kind |-> "route", base |-> base]
stops_path(base) == [kind |-> "stop", base |-> base]
preview_path == [kind |-> "preview", base |-> <<>>]

Paths ==
    {route_path(b) : b \in Bases} \cup {stops_path(b) : b \in Bases}
    \cup {preview_path}

Absent == [exists |-> FALSE]

\* path.write_text(json.dumps(doc)): the file holds the text of doc.
Written(doc) == [exists |-> TRUE, json |-> "ok", doc |-> doc]

\* a file whose text is not JSON
Garbage == [exists |-> TRUE, json |-> "bad"]

exists(fs, path) == fs[path].exists

NoFiles == [p \in Paths |-> Absent]

\* What the directory may hold before the first run: nothing, or files
\* that some other program left there (for base "24" a route feature
\* without geometry; for base "B1" a stop file that is not JSON).
InitialFiles ==
    {NoFiles,
     [NoFiles EXCEPT ![route_path(<<"2", "4">>)] =
                         Written(to_fc(<<[type |-> "Feature",
                                          properties |-> [name |-> "old"]]>>)),
                     ![stops_path(<<"2", "4">>)] = Written(to_fc(<<>>))],
     [NoFiles EXCEPT ![route_path(<<"B", "1">>)] = Written(to_fc(<<>>)),
                     ![stops_path(<<"B", "1">>)] = Garbage]}

-----------------------------------------------------------------------------
(* run(): the body of the for-loop *)

None == "<None>"

\* d.get(key, default)
Get(d, key, default) == IF key \in DOMAIN d THEN d[key] ELSE default

\* Variant: the overwrite flag read the wrong way round.
ShouldSkip_inverted(ow, fs, base) ==
    ow /\ exists(fs, route_path(base)) /\ exists(fs, stops_path(base))

\* not overwrite and route_path.exists() and stops_path.exists()
ShouldSkip(ow, fs, base) ==
    ~ow /\ exists(fs, route_path(base)) /\ exists(fs, stops_path(base))

\* json.loads(path.read_text())
json_loads(file) ==
    IF file.json = "ok" THEN [err |-> "none", doc |-> file.doc]
    ELSE [err |-> "JSONDecodeError", doc |-> to_fc(<<>>)]

\* The try block that loads the existing outputs of base.
load_existing(fs, base) ==
    LET rfc == json_loads(fs[route_path(base)])
        sfc == json_loads(fs[stops_path(base)])
    IN  IF rfc.err # "none" THEN [err |-> rfc.err, routes |-> <<>>, stops |-> <<>>]
        ELSE IF sfc.err # "none"
             THEN [err |-> sfc.err, routes |-> <<>>, stops |-> <<>>]
             ELSE [err |-> "none",
                   routes |-> Get(rfc.doc, "features", <<>>),
                   stops |-> Get(sfc.doc, "features", <<>>)]

\* Variant: the points are passed on untransformed.
transform_all_identity(coords_gcj) == coords_gcj

\* [gcj2wgs(x, y) for x, y in coords_gcj]
transform_all(coords_gcj) ==
    [i \in DOMAIN coords_gcj |-> gcj2wgs(coords_gcj[i][1], coords_gcj[i][2])]

route_props(L) ==
    [route_id |-> Get(L, "id", None), name |-> Get(L, "name", None),
     type |-> Get(L, "type", None), company |-> Get(L, "company", None),
     origin |-> Get(L, "start_stop", None),
     destination |-> Get(L, "end_stop", None)]

\* Parsing the polyline and building the route feature collection:
\* [err, fc].
route_fc_of(parsed, L) ==
    IF parsed.err # "none" THEN [err |-> parsed.err, fc |-> to_fc(<<>>)]
    ELSE [err |-> "none",
          fc |-> to_fc(<<feature_line(transform_all(parsed.pts),
                                      route_props(L))>>)]

build_route(L) == route_fc_of(parse_polyline(Get(L, "polyline", <<>>)), L)

\* One pass of the loop over L["busstops"]: [err, feats].
NoFeats(e) == [err |-> e, feats |-> <<>>]

stop_point(L, s, w) ==
    [err |-> "none",
     feats |-> <<feature_point(w[1], w[2],
                               [route_id |-> Get(L, "id", None),
                                route_name |-> Get(L, "name", None),
                                stop_name |-> s.name])>>]

stop_at(L, s, n, x, y) ==
    IF n # 2 \/ x.err # "none" \/ y.err # "none" THEN NoFeats("ValueError")
    ELSE IF "name" \notin DOMAIN s THEN NoFeats("KeyError")
    ELSE stop_point(L, s, gcj2wgs(x.v, y.v))

stop_parts(L, s, parts) ==
    stop_at(L, s, Len(parts), float(parts[1]),
            IF Len(parts) >= 2 THEN float(parts[2])
            ELSE [err |-> "ValueError", v |-> 0])

stop_feature(L, s) ==
    IF "location" \notin DOMAIN s THEN NoFeats("KeyError")
    ELSE stop_parts(L, s, split(s.location, ","))

append_stops(one, rest) ==
    IF one.err # "none" THEN one
    ELSE IF rest.err # "none" THEN rest
    ELSE [err |-> "none", feats |-> one.feats \o rest.feats]

RECURSIVE build_stops(_, _)
build_stops(L, ss) ==
    IF ss = <<>> THEN [err |-> "none", feats |-> <<>>]
    ELSE append_stops(stop_feature(L, Head(ss)), build_stops(L, Tail(ss)))

\* Steps 7 and 8 for the route record L: [err, route_fc, stop_feats].
built(r, st) ==
    IF r.err # "none"
    THEN [err |-> r.err, route_fc |-> to_fc(<<>>), stop_feats |-> <<>>]
    ELSE IF st.err # "none"
    THEN [err |-> st.err, route_fc |-> to_fc(<<>>), stop_feats |-> <<>>]
    ELSE [err |-> "none", route_fc |-> r.fc, stop_feats |-> st.feats]

build(L) == built(build_route(L), build_stops(L, Get(L, "busstops", <<>>)))

NoOrigin == [p \in Paths |-> <<>>]
EmptyMap == [lines |-> <<>>, markers |-> <<>>]

\* The state on entry of run(), after outdir.mkdir.
Enter(kws, ow, pv, fs) ==
    /\ keywords = kws /\ overwrite = ow /\ preview = pv
    /\ files = fs /\ files0 = fs
    /\ all_route_feats = <<>> /\ all_stop_feats = <<>>
    /\ idx = 1 /\ pc = "loop" /\ ln = NoReply /\ line_id = <<>>
    /\ m = EmptyMap /\ requests = <<>>
    /\ outcome = [i \in DOMAIN kws |-> "pending"]
    /\ exc = "none" /\ caught = "none"

kw == strip(keywords[idx])
base == base_name(kw)

AtKeyword == pc = "loop" /\ idx <= Len(keywords)

\* Variant: "break" in place of "continue".
Continue_break(o) ==
    /\ outcome' = [outcome EXCEPT ![idx] = o]
    /\ idx' = Len(keywords) + 1
    /\ pc' = "loop"

\* Variant: the loop does not advance and the keyword is tried again.
Continue_retry(o) ==
    /\ outcome' = [outcome EXCEPT ![idx] = o]
    /\ idx' = idx
    /\ pc' = "loop"

\* The iteration at idx ends with outcome o and the loop goes on.
Continue(o) ==
    /\ outcome' = [outcome EXCEPT ![idx] = o]
    /\ idx' = idx + 1
    /\ pc' = "loop"

\* An exception e leaves the loop body: nothing in run() catches it.
Raise(e) ==
    /\ outcome' = [outcome EXCEPT ![idx] = "raised"]
    /\ exc' = e
    /\ pc' = "raised"
    /\ UNCHANGED idx

Request(api, id) == [api |-> api, pos |-> idx, kw |-> kw, id |-> id]

inputVars == <<keywords, overwrite, preview, files0, prior>>
pureVars == <<pickVars, polyVars, gcjVars>>

\* if not kw: continue
SkipBlank ==
    /\ AtKeyword /\ kw = <<>>
    /\ Continue("blank")
    /\ UNCHANGED <<inputVars, pureVars, ln, files, origin, all_route_feats,
                   all_stop_feats, line_id, m, requests, exc, caught>>

\* Both outputs exist: load them for the preview, fetch nothing.
SkipExisting ==
    /\ AtKeyword /\ kw # <<>>
    /\ ShouldSkip(overwrite, files, base)
    /\ LET ld == load_existing(files, base)
       IN  /\ all_route_feats' = all_route_feats \o ld.routes
           /\ all_stop_feats' = all_stop_feats \o ld.stops
           /\ Continue(IF ld.err = "none" THEN "loaded" ELSE "load_failed")
    /\ UNCHANGED <<inputVars, pureVars, ln, files, origin, line_id, m, requests,
                   exc, caught>>

\* ln = api_linename(city, kw): the request goes out.
QueryLinename ==
    /\ AtKeyword /\ kw # <<>>
    /\ ~ShouldSkip(overwrite, files, base)
    /\ requests' = Append(requests, Request("linename", <<>>))
    /\ pc' = "linename"
    /\ UNCHANGED <<inputVars, pureVars, ln, files, origin, all_route_feats,
                   all_stop_feats, idx, line_id, m, outcome, exc, caught>>

\* http_get or json.loads raises inside api_linename.
LinenameRaises ==
    /\ pc = "linename"
    /\ \E r \in SearchReplies : r.err # "none" /\ Raise(r.err)
    /\ UNCHANGED <<inputVars, pureVars, ln, files, origin, all_route_feats,
                   all_stop_feats, line_id, m, requests, caught>>

\* ln.get("status") != "1"
LinenameFailed ==
    /\ pc = "linename"
    /\ \E r \in SearchReplies :
          /\ r.err = "none" /\ r.status # "1"
          /\ ln' = r
          /\ Continue("linename_failed")
    /\ UNCHANGED <<inputVars, pureVars, files, origin, all_route_feats,
                   all_stop_feats, line_id, m, requests, exc, caught>>

\* not best
NoCandidate ==
    /\ pc = "linename"
    /\ \E r \in SearchReplies :
          /\ r.err = "none" /\ r.status = "1"
          /\ ln' = r
          /\ pick_best_busline(r.buslines) = <<>>
          /\ Continue("no_candidate")
    /\ UNCHANGED <<inputVars, pureVars, files, origin, all_route_feats,
                   all_stop_feats, line_id, m, requests, exc, caught>>

\* line_id = best.get("id"); sleep; detail = api_lineid(city, line_id):
\* the request goes out (urlencode writes None as "None").
QueryLineid ==
    /\ pc = "linename"
    /\ \E r \in SearchReplies :
          /\ r.err = "none" /\ r.status = "1"
          /\ ln' = r
          /\ LET best == pick_best_busline(r.buslines)
             IN  /\ best # <<>>
                 /\ line_id' = Get(best[1], "id", <<"N", "o", "n", "e">>)
    /\ requests' = Append(requests, Request("lineid", line_id'))
    /\ pc' = "lineid"
    /\ UNCHANGED <<inputVars, pureVars, files, origin, all_route_feats,
                   all_stop_feats, idx, m, outcome, exc, caught>>

\* http_get or json.loads raises inside api_lineid.
LineidRaises ==
    /\ pc = "lineid"
    /\ \E d \in DetailReplies : d.err # "none" /\ Raise(d.err)
    /\ UNCHANGED <<inputVars, pureVars, ln, files, origin, all_route_feats,
                   all_stop_feats, line_id, m, requests, caught>>

\* detail.get("status") != "1" or not detail.get("buslines")
LineidFailed ==
    /\ pc = "lineid"
    /\ \E d \in DetailReplies :
          /\ d.err = "none"
          /\ (d.status # "1" \/ d.buslines = <<>>)
          /\ Continue("lineid_failed")
    /\ UNCHANGED <<inputVars, pureVars, ln, files, origin, all_route_feats,
                   all_stop_feats, line_id, m, requests, exc, caught>>

\* parse_polyline, float or a subscript raises while the features are built.
BuildRaises ==
    /\ pc = "lineid"
    /\ \E d \in DetailReplies :
          /\ d.err = "none" /\ d.status = "1" /\ d.buslines # <<>>
          /\ \E b \in {build(d.buslines[1])} : b.err # "none" /\ Raise(b.err)
    /\ UNCHANGED <<inputVars, pureVars, ln, files, origin, all_route_feats,
                   all_stop_feats, line_id, m, requests, caught>>

\* The features are built, both files written, the features accumulated.
WriteOutputs ==
    /\ pc = "lineid"
    /\ \E d \in DetailReplies :
          /\ d.err = "none" /\ d.status = "1" /\ d.buslines # <<>>
          /\ \E b \in {build(d.buslines[1])} :
                 /\ b.err = "none"
                 /\ files' = [files EXCEPT
                                ![route_path(base)] = Written(b.route_fc),
                                ![stops_path(base)] = Written(to_fc(b.stop_feats))]
                 /\ origin' = [origin EXCEPT
                                 ![route_path(base)] = <<d.buslines[1]>>,
                                 ![stops_path(base)] = <<d.buslines[1]>>]
                 /\ all_route_feats' = all_route_feats \o b.route_fc.features
                 /\ all_stop_feats' = all_stop_feats \o b.stop_feats
    /\ Continue("written")
    /\ UNCHANGED <<inputVars, pureVars, ln, line_id, m, requests, exc, caught>>

-----------------------------------------------------------------------------
(* run(): the preview *)

LON_SHIFT == -7500
STOP_CAP == 2000

colors ==
    <<"red", "blue", "green", "purple", "orange", "darkred", "lightred",
      "beige", "darkblue", "darkgreen", "cadetblue", "darkpurple", "pink",
      "lightblue", "lightgreen", "gray", "black", "lightgray">>

offsets == <<-4, 0, 4, -8, 8, -12, 12, -16, 16, -20, 20>>

\* The i-th value drawn from itertools.cycle(s).
Cycle(s, i) == s[((i - 1) % Len(s)) + 1]

\* round(x, 6) of an E7 coordinate: to the nearest 1e-6, ties to even.
round6(n) ==
    LET q == n \div 10
        r == n % 10
    IN  IF r < 5 THEN 10 * q
        ELSE IF r > 5 THEN 10 * (q + 1)
        ELSE IF q % 2 = 0 THEN 10 * q ELSE 10 * (q + 1)

\* f["geometry"]["coordinates"] and f["properties"] raise KeyError on a
\* feature that lacks them.
WellFormed(f) ==
    /\ "geometry" \in DOMAIN f /\ "coordinates" \in DOMAIN f.geometry
    /\ "properties" \in DOMAIN f

\* route_color_map after the loop over the routes: the color drawn for the
\* last feature with that route_id; "black" where the map has no entry.
route_color(routes, route_id) ==
    LET js == {i \in DOMAIN routes :
                  Get(routes[i].properties, "route_id", None) = route_id}
    IN  IF route_id = None \/ js = {} THEN "black"
        ELSE Cycle(colors, CHOOSE i \in js : \A j \in js : j <= i)

\* The polylines added to the map, one per feature with coordinates.
RECURSIVE draw_routes(_, _)
draw_routes(routes, i) ==
    IF i > Len(routes) THEN <<>>
    ELSE (IF routes[i].geometry.coordinates # <<>>
          THEN <<[name |-> Get(routes[i].properties, "name", ""),
                  color |-> Cycle(colors, i),
                  offset |-> Cycle(offsets, i)]>>
          ELSE <<>>)
         \o draw_routes(routes, i + 1)

\* all_stop_feats[:2000]
capped(stops) ==
    SubSeq(stops, 1, IF Len(stops) < STOP_CAP THEN Len(stops) ELSE STOP_CAP)

stop_key(f) ==
    <<round6(f.geometry.coordinates[1]), round6(f.geometry.coordinates[2]),
      Get(f.properties, "stop_name", "")>>

\* The keys of stop_routes, in insertion order.
RECURSIVE stop_keys(_, _)
stop_keys(stops, seen) ==
    IF stops = <<>> THEN <<>>
    ELSE LET k == stop_key(Head(stops))
         IN  IF k \in seen THEN stop_keys(Tail(stops), seen)
             ELSE <<k>> \o stop_keys(Tail(stops), seen \cup {k})

stop_routes(stops, k) ==
    {Get(stops[i].properties, "route_name", "") :
        i \in {j \in DOMAIN stops : stop_key(stops[j]) = k}}

stop_colors(routes, stops, k) ==
    {route_color(routes, Get(stops[i].properties, "route_id", None)) :
        i \in {j \in DOMAIN stops : stop_key(stops[j]) = k}}

\* list(stop_colors[key])[0]: the first element of a set of str in
\* iteration order, which the interpreter's string hashing decides; any
\* element of the set can come first.
first_color(cs) == cs

marker(k, color, routes) ==
    [at |-> <<k[2], k[1] + LON_SHIFT>>, color |-> color,
     stop |-> k[3], routes |-> routes]

\* The sequences of border colors the markers of keys can get.
RECURSIVE border_choices(_, _, _)
border_choices(routes, stops, keys) ==
    IF keys = <<>> THEN {<<>>}
    ELSE {<<c>> \o rest :
            c \in first_color(stop_colors(routes, stops, Head(keys))),
            rest \in border_choices(routes, stops, Tail(keys))}

\* Variant: "except ImportError".
handler_catches_import_only(e) == e = "ImportError"

\* except Exception
handler_catches(e) ==
    e \in {"ImportError", "KeyError", "OSError", "ValueError", "URLError",
           "JSONDecodeError"}

\* An exception e is raised inside the try block of the preview.
PreviewRaise(e) ==
    IF handler_catches(e)
    THEN caught' = e /\ pc' = "done" /\ UNCHANGED exc
    ELSE exc' = e /\ pc' = "raised" /\ UNCHANGED caught

AtEnd == pc = "loop" /\ idx > Len(keywords)

\* if preview: is false
NoPreview ==
    /\ AtEnd /\ ~preview
    /\ pc' = "done"
    /\ UNCHANGED <<inputVars, pureVars, ln, files, origin, all_route_feats,
                   all_stop_feats, idx, line_id, m, requests, outcome, exc,
                   caught>>

\* import folium; m = folium.Map(...)
ImportFolium ==
    /\ AtEnd /\ preview
    /\ pc' = "draw" /\ m' = EmptyMap
    /\ UNCHANGED <<inputVars, pureVars, ln, files, origin, all_route_feats,
                   all_stop_feats, idx, line_id, requests, outcome, exc,
                   caught>>

\* folium is not installed
ImportFails ==
    /\ AtEnd /\ preview
    /\ PreviewRaise("ImportError")
    /\ UNCHANGED <<inputVars, pureVars, ln, files, origin, all_route_feats,
                   all_stop_feats, idx, line_id, m, requests, outcome>>

Drawable ==
    /\ \A i \in DOMAIN all_route_feats : WellFormed(all_route_feats[i])
    /\ \A i \in DOMAIN capped(all_stop_feats) : WellFormed(all_stop_feats[i])

\* The two loops that draw the routes and the stop markers.
Draw ==
    /\ pc = "draw" /\ Drawable
    /\ LET stops == capped(all_stop_feats)
           keys  == stop_keys(stops, {})
       IN  \E border \in border_choices(all_route_feats, stops, keys) :
              m' = [lines |-> draw_routes(all_route_feats, 1),
                    markers |-> [i \in DOMAIN keys |->
                                   marker(keys[i], border[i],
                                          stop_routes(stops, keys[i]))]]
    /\ pc' = "save"
    /\ UNCHANGED <<inputVars, pureVars, ln, files, origin, all_route_feats,
                   all_stop_feats, idx, line_id, requests, outcome, exc,
                   caught>>

\* An accumulated feature lacks geometry or properties.
DrawRaises ==
    /\ pc = "draw" /\ ~Drawable
    /\ PreviewRaise("KeyError")
    /\ UNCHANGED <<inputVars, pureVars, ln, files, origin, all_route_feats,
                   all_stop_feats, idx, line_id, m, requests, outcome>>

\* m.save(str(outdir / preview_name)), preview_name being no output file.
Save ==
    /\ pc = "save"
    /\ files' = [files EXCEPT ![preview_path] = Written(m)]
    /\ pc' = "done"
    /\ UNCHANGED <<inputVars, pureVars, ln, origin, all_route_feats,
                   all_stop_feats, idx, line_id, m, requests, outcome, exc,
                   caught>>

\* m.save cannot write the file.
SaveRaises ==
    /\ pc = "save"
    /\ PreviewRaise("OSError")
    /\ UNCHANGED <<inputVars, pureVars, ln, files, origin, all_route_feats,
                   all_stop_feats, idx, line_id, m, requests, outcome>>

-----------------------------------------------------------------------------
(* The program *)

PureIdle ==
    /\ cands = <<>> /\ picked = [called |-> FALSE, ret |-> <<>>]
    /\ segs = <<>> /\ poly = <<>>
    /\ feat = [called |-> FALSE, err |-> "none", ret |-> feature_line(<<>>, None)]
    /\ pt = <<0, 0>> /\ wgs = <<0, 0>> /\ branch = "not called"

Init ==
    /\ \E kws \in SeqsUpTo(KeywordSet, MaxKeywords), ow \in BOOLEAN,
          pv \in BOOLEAN, fs \in InitialFiles : Enter(kws, ow, pv, fs)
    /\ prior = "none"
    /\ origin = NoOrigin
    /\ PureIdle

\* One invocation of run().
Next ==
    \/ SkipBlank \/ SkipExisting \/ QueryLinename
    \/ LinenameRaises \/ LinenameFailed \/ NoCandidate \/ QueryLineid
    \/ LineidRaises \/ LineidFailed \/ BuildRaises \/ WriteOutputs
    \/ NoPreview \/ ImportFolium \/ ImportFails
    \/ Draw \/ DrawRaises \/ Save \/ SaveRaises

Spec == Init /\ [][Next]_vars

\* The same command is run a second time, on the directory that the first
\* run left when it returned.
Rerun ==
    /\ pc = "done" /\ prior = "none"
    /\ prior' = pc
    /\ files0' = files
    /\ all_route_feats' = <<>> /\ all_stop_feats' = <<>>
    /\ idx' = 1 /\ pc' = "loop" /\ ln' = NoReply /\ line_id' = <<>>
    /\ m' = EmptyMap /\ requests' = <<>>
    /\ outcome' = [i \in DOMAIN keywords |-> "pending"]
    /\ exc' = "none" /\ caught' = "none"
    /\ UNCHANGED <<keywords, overwrite, preview, files, origin, pureVars>>

\* run() and, after it has returned, run() once more.
NextTwice ==
    \/ SkipBlank \/ SkipExisting \/ QueryLinename
    \/ LinenameRaises \/ LinenameFailed \/ NoCandidate \/ QueryLineid
    \/ LineidRaises \/ LineidFailed \/ BuildRaises \/ WriteOutputs
    \/ NoPreview \/ ImportFolium \/ ImportFails
    \/ Draw \/ DrawRaises \/ Save \/ SaveRaises
    \/ Rerun

SpecTwice == Init /\ [][NextTwice]_vars

-----------------------------------------------------------------------------
(* Direct calls of the pure functions *)

RunIdle ==
    /\ Enter(<<>>, FALSE, FALSE, NoFiles)
    /\ prior = "none"
    /\ origin = NoOrigin

\* ---- pick_best_busline ----

IdSet ==
    {<<"8", "8">>, <<"1", "0", "2", "3">>, <<"0", "9", "9">>, <<"a", "1">>,
     <<"-", "5">>, Big18}

CandSet == {Cand(id) : id \in IdSet} \cup {[name |-> "c"]}

InitPick ==
    /\ cands \in SeqsUpTo(CandSet, MaxCands)
    /\ picked = [called |-> FALSE, ret |-> <<>>]
    /\ segs = <<>> /\ poly = <<>>
    /\ feat = [called |-> FALSE, err |-> "none", ret |-> feature_line(<<>>, None)]
    /\ pt = <<0, 0>> /\ wgs = <<0, 0>> /\ branch = "not called"
    /\ RunIdle

CallPick ==
    /\ ~picked.called
    /\ picked' = [called |-> TRUE, ret |-> pick_best_busline(cands)]
    /\ UNCHANGED <<runVars, cands, polyVars, gcjVars>>

SpecPick == InitPick /\ [][CallPick]_vars

\* ---- parse_polyline and the route feature ----

PN == <<-735000000, 407000001>>   \* outside the envelope, negative longitude

Pair(p, pad) == [kind |-> "pair", p |-> p, pad |-> pad]

SegSet ==
    {Pair(P1, FALSE), Pair(P2, TRUE), Pair(PN, FALSE),
     [kind |-> "empty"], [kind |-> "blank"], [kind |-> "bad"],
     [kind |-> "triple"]}

SegText(d) ==
    CASE d.kind = "pair" ->
           IF d.pad THEN <<" ">> \o PairText(d.p) \o <<" ">> ELSE PairText(d.p)
      [] d.kind = "empty" -> <<>>
      [] d.kind = "blank" -> <<" ">>
      [] d.kind = "bad" -> <<"x">>
      [] d.kind = "triple" -> <<"1", ",", "2", ",", "3">>

PolyText(ds) == Join([i \in DOMAIN ds |-> SegText(ds[i])], ";")

InitPoly ==
    /\ segs \in SeqsUpTo(SegSet, MaxSegs)
    /\ poly = PolyText(segs)
    /\ feat = [called |-> FALSE, err |-> "none", ret |-> feature_line(<<>>, None)]
    /\ cands = <<>> /\ picked = [called |-> FALSE, ret |-> <<>>]
    /\ pt = <<0, 0>> /\ wgs = <<0, 0>> /\ branch = "not called"
    /\ RunIdle

\* coords_gcj = parse_polyline(poly); coords_wgs = [...]; feature_line(...)
made(r) ==
    [called |-> TRUE, err |-> r.err,
     ret |-> IF r.err = "none" THEN r.fc.features[1]
             ELSE feature_line(<<>>, None)]

CallParse ==
    /\ ~feat.called
    /\ feat' = made(build_route([polyline |-> poly]))
    /\ UNCHANGED <<runVars, pickVars, segs, poly, gcjVars>>

SpecPoly == InitPoly /\ [][CallParse]_vars

\* ---- gcj2wgs ----

LonSet ==
    {-735000000, 0, 720039999, 720040000, 720040001, 1050000000, 1207000000,
     1378347000, 1378347001, 1400000000}

LatSet ==
    {-100000000, 8292999, 8293000, 280000000, 558271000, 558271001,
     600000000}

InitGcj ==
    /\ pt \in LonSet \X LatSet
    /\ wgs = <<0, 0>> /\ branch = "not called"
    /\ cands = <<>> /\ picked = [called |-> FALSE, ret |-> <<>>]
    /\ segs = <<>> /\ poly = <<>>
    /\ feat = [called |-> FALSE, err |-> "none", ret |-> feature_line(<<>>, None)]
    /\ RunIdle

\* The call returns at the first return statement or at the second.
CallGcj ==
    /\ branch = "not called"
    /\ wgs' = gcj2wgs(pt[1], pt[2])
    /\ branch' = IF _out_of_china(pt[1], pt[2]) THEN "unchanged" ELSE "corrected"
    /\ UNCHANGED <<runVars, pickVars, polyVars, pt>>

SpecGcj == InitGcj /\ [][CallGcj]_vars

-----------------------------------------------------------------------------
(* Properties *)

OutputPaths == Paths \ {preview_path}

KeywordBase(k) == base_name(strip(keywords[k]))

BothExist(fs, b) == exists(fs, route_path(b)) /\ exists(fs, stops_path(b))

RequestsOf(k) == {j \in DOMAIN requests : requests[j].pos = k}

\* C1: a failure while keyword k is processed (a network error, a malformed
\* polyline segment, a stop record without a location) is logged and the
\* keyword skipped: the loop goes on to the keywords after k.
C1_FailureSkipsKeyword ==
    \A k \in DOMAIN outcome :
        outcome[k] = "raised" => pc # "raised" /\ exc = "none" /\ idx > k

\* C2: when some candidate has a purely numeric id, pick_best_busline
\* returns a candidate with a purely numeric id whose integer value is the
\* least of the numeric ids, whatever their magnitude.
PurelyNumeric(b) == "id" \in DOMAIN b /\ b.id # <<>> /\ AllDigits(b.id)

NumericValue(b) == PyInt(FALSE, b.id)

C2_PicksLeastNumericId ==
    (picked.called /\ \E i \in DOMAIN cands : PurelyNumeric(cands[i]))
    => /\ picked.ret # <<>>
       /\ PurelyNumeric(picked.ret[1])
       /\ \A i \in DOMAIN cands :
             PurelyNumeric(cands[i])
             => ~IntLess(NumericValue(cands[i]), NumericValue(picked.ret[1]))

\* C3 as stated: in the second run of the same command with overwrite false
\* no request is issued for any keyword and no output file is written.
C3_SecondRunFetchesNothing ==
    (prior = "done" /\ ~overwrite)
    => /\ requests = <<>>
       /\ \A p \in OutputPaths : files[p] = files0[p]

\* C3 amended: in the second run of the same command with overwrite false,
\* for every keyword whose two output files both exist when that run starts,
\* no search or detail request is issued and neither file is written; the
\* run only loads them for the preview, and loading the files that the
\* first run wrote succeeds.
C3_SecondRunSkipsExisting ==
    (prior = "done" /\ ~overwrite)
    => \A k \in DOMAIN keywords :
          (KeywordBase(k) # <<>> /\ BothExist(files0, KeywordBase(k)))
          => /\ RequestsOf(k) = {}
             /\ files[route_path(KeywordBase(k))] = files0[route_path(KeywordBase(k))]
             /\ files[stops_path(KeywordBase(k))] = files0[stops_path(KeywordBase(k))]
             /\ outcome[k] \in {"pending", "loaded", "load_failed"}
             /\ (origin[route_path(KeywordBase(k))] # <<>>
                 => outcome[k] # "load_failed")

C3_Witness ==
    /\ prior = "done" /\ ~overwrite /\ pc = "done"
    /\ \E k \in DOMAIN keywords :
          /\ KeywordBase(k) # <<>>
          /\ origin[route_path(KeywordBase(k))] # <<>>
          /\ outcome[k] = "loaded"
          /\ all_route_feats # <<>>

\* C4: a keyword whose search reply has a status other than "1" or no
\* candidate, or whose detail reply is unsuccessful or empty: no step of its
\* iteration changes a file or the accumulated features, and the loop goes
\* on with the next keyword.
FailedLookup == {"linename_failed", "no_candidate", "lineid_failed"}

C4_FailedLookupChangesNothing ==
    [][(idx \in DOMAIN outcome /\ outcome[idx] = "pending"
        /\ (pc \in {"linename", "lineid"} \/ pc' \in {"linename", "lineid"})
        /\ outcome'[idx] # "written")
       => /\ files' = files
          /\ all_route_feats' = all_route_feats
          /\ all_stop_feats' = all_stop_feats
          /\ (outcome'[idx] \in FailedLookup
              => pc' = "loop" /\ idx' = idx + 1 /\ exc' = "none")]_vars

C4_Witness ==
    \E k \in DOMAIN outcome, j \in DOMAIN outcome :
        /\ k < j
        /\ outcome[k] = "linename_failed"
        /\ outcome[j] = "written"
        /\ KeywordBase(k) # KeywordBase(j)
        /\ ~exists(files, route_path(KeywordBase(k)))

\* C5: every route coordinate and every stop coordinate that run() writes
\* is gcj2wgs of the provider's coordinate; a provider point inside the
\* envelope is never written as it came.
NativeRoute(L) ==
    IF L = L24 THEN <<P1, P2>> ELSE IF L = LB1 THEN <<P1, P3>> ELSE <<>>

NativeStops(L) ==
    IF L \in {L24, LB1} THEN NativeRoute(L) ELSE <<>>

Inside(p) ==
    /\ 720040000 <= p[1] /\ p[1] <= 1378347000
    /\ 8293000 <= p[2] /\ p[2] <= 558271000

TransformedFrom(written, native) ==
    /\ Len(written) = Len(native)
    /\ \A i \in DOMAIN native :
          /\ written[i] = gcj2wgs(native[i][1], native[i][2])
          /\ Inside(native[i]) => written[i] # native[i]

C5_OutputsAreTransformed ==
    \A b \in Bases :
        /\ origin[route_path(b)] # <<>>
           => TransformedFrom(
                  files[route_path(b)].doc.features[1].geometry.coordinates,
                  NativeRoute(origin[route_path(b)][1]))
        /\ origin[stops_path(b)] # <<>>
           => TransformedFrom(
                  [i \in DOMAIN files[stops_path(b)].doc.features |->
                      files[stops_path(b)].doc.features[i].geometry.coordinates],
                  NativeStops(origin[stops_path(b)][1]))

C5_Witness ==
    \E b \in Bases :
        /\ origin[route_path(b)] = <<LB1>>
        /\ files[route_path(b)].doc.features[1].geometry.coordinates[1] # P1
        /\ files[route_path(b)].doc.features[1].geometry.coordinates[2] = P3
        /\ Len(files[stops_path(b)].doc.features) = 2

\* C6: a polyline made of N "lon,lat" pairs (and empty segments) gives a
\* route feature whose coordinate list holds exactly those N pairs, each
\* transformed, in the order of the string.
RECURSIVE PairsOf(_)
PairsOf(ds) ==
    IF ds = <<>> THEN <<>>
    ELSE (IF Head(ds).kind = "pair" THEN <<Head(ds).p>> ELSE <<>>)
         \o PairsOf(Tail(ds))

C6_PolylineKeepsPairs ==
    (feat.called /\ \A i \in DOMAIN segs : segs[i].kind \in {"pair", "empty", "blank"})
    => /\ feat.err = "none"
       /\ Len(feat.ret.geometry.coordinates) = Len(PairsOf(segs))
       /\ \A i \in DOMAIN PairsOf(segs) :
             feat.ret.geometry.coordinates[i]
                = gcj2wgs(PairsOf(segs)[i][1], PairsOf(segs)[i][2])

C6_Witness ==
    /\ feat.called /\ feat.err = "none"
    /\ segs = <<Pair(PN, FALSE), Pair(P2, TRUE), [kind |-> "empty"]>>
    /\ Len(feat.ret.geometry.coordinates) = 2
    /\ feat.ret.geometry.coordinates[1] = PN
    /\ feat.ret.geometry.coordinates[2] # P2

\* C7: outside the envelope 72.004 <= lon <= 137.8347, 0.8293 <= lat <=
\* 55.8271 gcj2wgs returns its input; inside, the boundary included, the
\* correction branch is taken.
C7_EnvelopeDecidesBranch ==
    branch # "not called"
    => IF Inside(pt)
       THEN branch = "corrected" /\ wgs = minus(pt, correction(pt[1], pt[2]))
       ELSE branch = "unchanged" /\ wgs = pt

C7_Witness ==
    /\ pt = <<1207000000, 558271001>>
    /\ branch = "unchanged"
    /\ wgs = pt

\* C8: a failure while the preview is generated is caught: run() returns
\* normally, and no step of the preview changes a route or stop file.
PreviewStep == (AtEnd /\ preview) \/ pc \in {"draw", "save"}

C8_PreviewFailureIsContained ==
    [][PreviewStep
       => /\ pc' \in {"draw", "save", "done"}
          /\ exc' = "none"
          /\ \A p \in OutputPaths : files'[p] = files[p]
          /\ (pc' = "done" /\ ~exists(files', preview_path)
              => caught' # "none")
          /\ (caught' # "none" => pc' = "done" /\ files' = files)]_vars

C8_Witness ==
    /\ pc = "done" /\ exc = "none"
    /\ caught = "KeyError"
    /\ ~exists(files, preview_path)
    /\ \E k \in DOMAIN outcome : outcome[k] = "written"

\* C9: the stop features are grouped by rounded coordinates and name, each
\* group gets exactly one marker whose popup lists all the routes of the
\* group and whose border is the color of the first route, in accumulation
\* order, that serves the stop.
FirstStopOf(k) ==
    CHOOSE i \in DOMAIN capped(all_stop_feats) :
        /\ stop_key(all_stop_feats[i]) = k
        /\ \A j \in 1..(i - 1) : stop_key(all_stop_feats[j]) # k

\* The color that route_color_map gives the route of the first stop
\* feature of the group.
FirstRouteColor(k) ==
    route_color(all_route_feats,
                Get(all_stop_feats[FirstStopOf(k)].properties, "route_id", None))

C9_BorderIsFirstRouteColor ==
    m.markers # <<>>
    => /\ Len(m.markers) = Len(stop_keys(capped(all_stop_feats), {}))
       /\ \A i \in DOMAIN m.markers :
             /\ m.markers[i].stop = stop_keys(capped(all_stop_feats), {})[i][3]
             /\ m.markers[i].routes
                   = stop_routes(capped(all_stop_feats),
                                 stop_keys(capped(all_stop_feats), {})[i])
             /\ m.markers[i].color
                   = FirstRouteColor(stop_keys(capped(all_stop_feats), {})[i])

\* C10: per keyword position at most one search and one detail request; a
\* detail request follows the search reply of the same keyword, which had
\* status "1" and candidates, and carries the id pick_best_busline chose;
\* the requests and writes of a keyword come before any request of the
\* next; no request goes out for a keyword whose two files exist while
\* overwrite is false.
Last(q) == q[Len(q)]

C10_Log ==
    /\ \A k \in DOMAIN keywords, api \in {"linename", "lineid"} :
          Cardinality({j \in RequestsOf(k) : requests[j].api = api}) <= 1
    /\ \A j \in DOMAIN requests :
          /\ \A i \in 1..(j - 1) : requests[i].pos <= requests[j].pos
          /\ requests[j].api = "lineid"
             => /\ j > 1
                /\ requests[j - 1].api = "linename"
                /\ requests[j - 1].pos = requests[j].pos
    /\ pc = "lineid"
       => /\ ln.status = "1" /\ ln.buslines # <<>>
          /\ Last(requests).api = "lineid"
          /\ Last(requests).id
                = Get(pick_best_busline(ln.buslines)[1], "id",
                      <<"N", "o", "n", "e">>)

C10_Step ==
    /\ Len(requests') > Len(requests)
       => /\ Last(requests').pos = idx
          /\ ~(~overwrite /\ BothExist(files, KeywordBase(idx)))
          /\ \A k \in 1..(idx - 1) : outcome[k] # "pending"
          /\ files' = files
    /\ (\E p \in OutputPaths : files'[p] # files[p])
       => /\ pc = "lineid"
          /\ Last(requests).pos = idx
          /\ outcome'[idx] = "written"
          /\ requests' = requests

C10_RequestDiscipline == []C10_Log /\ [][C10_Step]_vars

C10_Witness ==
    /\ Len(requests) = 4
    /\ requests[2].api = "lineid" /\ requests[2].id = <<"8", "8">>
    /\ requests[3].pos = 2 /\ requests[4].pos = 2
    /\ outcome[1] = "written"
    /\ pc = "done"

=============================================================================
